---- MODULE Spec2Model ----
\* A model of shortlink's app.py: the /shorten and /<code> handlers, the lazy
\* schema bootstrap and the links table they share.  Strings are sequences of
\* one-character strings so that strip, urlparse and key comparison are
\* computed, not assumed.
EXTENDS Integers, Sequences, FiniteSets, TLC

\* ------------------------------------------------------------------ bounds
NumWorkers == 2        \* request workers running concurrently
NumCodes == 2          \* outcomes of the random source that are explored
MaxRequests == 3       \* requests served in one behaviour

\* --------------------------------------------------------- program constants
MaxAttempts == 10      \* for _ in range(10)
CodeLen == 7           \* gen_code(n=7)

Workers == 1..NumWorkers

\* the service process a worker thread belongs to: threads share their
\* process's _db_initialized
InstOf(w) == (w + 1) \div 2
Instances == {InstOf(w) : w \in Workers}

\* ------------------------------------------------------------------ strings
ascii_lowercase ==
  <<"a", "b", "c", "d", "e", "f", "g", "h", "i", "j", "k", "l", "m",
    "n", "o", "p", "q", "r", "s", "t", "u", "v", "w", "x", "y", "z">>
ascii_uppercase ==
  <<"A", "B", "C", "D", "E", "F", "G", "H", "I", "J", "K", "L", "M",
    "N", "O", "P", "Q", "R", "S", "T", "U", "V", "W", "X", "Y", "Z">>
digits == <<"0", "1", "2", "3", "4", "5", "6", "7", "8", "9">>

Range(s) == {s[i] : i \in 1..Len(s)}

\* string.ascii_letters + string.digits
alphabet == ascii_lowercase \o ascii_uppercase \o digits

Whitespace == {" ", "\t", "\n", "\r"}

\* str.strip()
strip(s) ==
  LET keep == {i \in 1..Len(s) : s[i] \notin Whitespace}
  IN IF keep = {} THEN <<>>
     ELSE LET a == CHOOSE i \in keep : \A j \in keep : i <= j
              b == CHOOSE i \in keep : \A j \in keep : j <= i
          IN SubSeq(s, a, b)

\* str.lower() on one character
lower_char(c) ==
  IF \E i \in 1..26 : ascii_uppercase[i] = c
  THEN ascii_lowercase[CHOOSE i \in 1..26 : ascii_uppercase[i] = c]
  ELSE c

\* str.lower()
lower(s) == [j \in 1..Len(s) |-> lower_char(s[j])]

\* str.find over a set of characters, 1-based, 0 when absent
find(s, chars) ==
  IF \E i \in 1..Len(s) : s[i] \in chars
  THEN CHOOSE i \in 1..Len(s) : s[i] \in chars /\ \A j \in 1..(i - 1) : s[j] \notin chars
  ELSE 0

scheme_chars == Range(alphabet) \cup {"+", "-", "."}

\* urllib.parse.urlparse: the components is_valid_url reads, and whether it
\* raises ValueError (unbalanced IPv6 bracket in the netloc)
urlparse(u) ==
  LET url0 == SelectSeq(u, LAMBDA c : c \notin {"\t", "\n", "\r"})
      i == find(url0, {":"})
      hasScheme == /\ i > 1
                   /\ url0[1] \in Range(ascii_lowercase) \cup Range(ascii_uppercase)
                   /\ \A j \in 1..(i - 1) : url0[j] \in scheme_chars
      scheme == IF hasScheme THEN lower(SubSeq(url0, 1, i - 1)) ELSE <<>>
      rest == IF hasScheme THEN SubSeq(url0, i + 1, Len(url0)) ELSE url0
      hasNetloc == Len(rest) >= 2 /\ rest[1] = "/" /\ rest[2] = "/"
      after == IF hasNetloc THEN SubSeq(rest, 3, Len(rest)) ELSE <<>>
      d == find(after, {"/", "?", "#"})
      netloc == IF d = 0 THEN after ELSE SubSeq(after, 1, d - 1)
      raises == ("[" \in Range(netloc)) # ("]" \in Range(netloc))
  IN [scheme |-> scheme, netloc |-> netloc, raises |-> raises]

S_http == <<"h", "t", "t", "p">>
S_https == <<"h", "t", "t", "p", "s">>

is_valid_url(u) ==
  LET p == urlparse(u)
  IN IF p.raises THEN FALSE
     ELSE p.scheme \in {S_http, S_https} /\ p.netloc # <<>>

\* secrets.choice(alphabet): the random source, bounded to NumCodes outcomes
\* that include a letter in both cases
secrets_choice == {alphabet[1 + 26 * (k - 1)] : k \in 1..NumCodes}

\* a generator that is one character short
gen_code_Short(n) ==
  {[j \in 1..(n - 1) |-> IF j = 1 THEN c ELSE alphabet[1]] : c \in secrets_choice}

\* gen_code: n characters of the alphabet; the first one is drawn, the others
\* are pinned to alphabet[1] to keep the candidate set finite and small
gen_code(n) ==
  {[j \in 1..n |-> IF j = 1 THEN c ELSE alphabet[1]] : c \in secrets_choice}

\* ------------------------------------------------------------------ inputs
RawUrls ==
  { <<" ", "H", "T", "T", "P", "S", ":", "/", "/", "b">>,
    <<"h", "t", "t", "p", ":", "/", "/", ":", "8">>,
    <<"f", "t", "p", ":", "/", "/", "x">>,
    <<"h", "t", "t", "p", ":", "/", "/">>,
    <<>> }

PathCodes ==
  gen_code(CodeLen) \cup {<<"d", "o", "e", "s", "n", "o", "t", "e", "x", "i", "s", "t">>}

\* ------------------------------------------------------------------- state
VARIABLES
  links,           \* rows of table links, in commit order: [code, url]
  tableExists,     \* the links table has been created
  _db_initialized, \* per service process
  pc,              \* where each worker stands in its handler
  req,             \* the request a worker serves
  attempts,        \* iterations of the candidate loop started
  hits,            \* history: iterations whose existence check found a row
  code,            \* shorten's local variable code
  firstCode,       \* history: the first candidate of the request
  exc,             \* the exception the request raised, if any
  resp,            \* the response returned
  usedStore,       \* history: the request called into the store
  issued,          \* history: the (code, url) of every 201 response, in order
  stalled,         \* the store call a worker waits in never answers
  served           \* requests accepted so far

vars == <<links, tableExists, _db_initialized, pc, req, attempts, hits, code,
          firstCode, exc, resp, usedStore, issued, stalled, served>>

NoReq == [kind |-> "none", arg |-> <<>>]
NoResp == [status |-> 0, code |-> <<>>, url |-> <<>>, details |-> ""]
NoCode == <<>>

Init ==
  /\ links = <<>>
  /\ tableExists = FALSE
  /\ _db_initialized = [i \in Instances |-> FALSE]
  /\ pc = [w \in Workers |-> "idle"]
  /\ req = [w \in Workers |-> NoReq]
  /\ attempts = [w \in Workers |-> 0]
  /\ hits = [w \in Workers |-> 0]
  /\ code = [w \in Workers |-> NoCode]
  /\ firstCode = [w \in Workers |-> NoCode]
  /\ exc = [w \in Workers |-> ""]
  /\ resp = [w \in Workers |-> NoResp]
  /\ usedStore = [w \in Workers |-> FALSE]
  /\ issued = <<>>
  /\ stalled = [w \in Workers |-> ""]
  /\ served = 0

\* ------------------------------------------------------------- the store
\* an existence check that never finds a row
SelectExists_Never(table, c) == FALSE

\* SELECT 1 FROM links WHERE code=%s; fetchone() is not None
SelectExists(table, c) == \E k \in 1..Len(table) : table[k].code = c

\* a lookup that compares keys without regard to case
SelectUrl_CaseInsensitive(table, c) ==
  {table[k].url : k \in {j \in 1..Len(table) : lower(table[j].code) = lower(c)}}

\* SELECT url FROM links WHERE code=%s; fetchone(): the rows with that key
SelectUrl(table, c) == {table[k].url : k \in {j \in 1..Len(table) : table[j].code = c}}

\* a table declared without the primary key
PrimaryKeyViolation_NoConstraint(table, c) == FALSE

\* code TEXT PRIMARY KEY: an insert of a committed key is rejected
PrimaryKeyViolation(table, c) == \E k \in 1..Len(table) : table[k].code = c

\* a bootstrap that drops and recreates the table
CreateTableIfNotExists_Recreate(exists, table) == [exists |-> TRUE, rows |-> <<>>]

\* CREATE TABLE IF NOT EXISTS links (...): the table exists afterwards and
\* keeps the rows it had
CreateTableIfNotExists(exists, table) ==
  [exists |-> TRUE, rows |-> IF exists THEN table ELSE <<>>]

\* an insert that normalises the url it stores
InsertRow_Lowered(table, c, u) == Append(table, [code |-> c, url |-> lower(u)])

\* INSERT INTO links (code, url) VALUES (%s, %s) followed by commit
InsertRow(table, c, u) == Append(table, [code |-> c, url |-> u])

\* a worker holds an uncommitted insert of key c
Pending(w, c) == pc[w] = "commit" /\ code[w] = c

\* ----------------------------------------------------------- the responses
InvalidInput ==
  [status |-> 400, code |-> <<>>, url |-> <<>>, details |-> "Please provide a valid http(s) URL"]
Created(c, u) == [status |-> 201, code |-> c, url |-> u, details |-> ""]
CodeSpaceExhausted ==
  [status |-> 500, code |-> <<>>, url |-> <<>>, details |-> "Could not generate code, try again"]
\* a handler that reports a store failure as a miss
StoreUnavailable_AsNotFound(e) ==
  [status |-> 404, code |-> <<>>, url |-> <<>>, details |-> "Not found"]

\* except Exception as e: ... 503, details str(e)
StoreUnavailable(e) == [status |-> 503, code |-> <<>>, url |-> <<>>, details |-> e]
NotFound == [status |-> 404, code |-> <<>>, url |-> <<>>, details |-> "Not found"]
Redirect(u) == [status |-> 302, code |-> <<>>, url |-> u, details |-> ""]

\* an ensure_db that never runs init_db
AfterEnsure_Skip(i) == "connect"

\* ensure_db's test of the flag: where the request goes next
AfterEnsure(i) == IF _db_initialized[i] THEN "connect" ELSE "init"

\* the handler returns r; a 201 is recorded in the log of successes
Respond(w, r) ==
  /\ resp' = [resp EXCEPT ![w] = r]
  /\ pc' = [pc EXCEPT ![w] = "done"]
  /\ issued' = IF r.status = 201
               THEN Append(issued, [code |-> r.code, url |-> r.url])
               ELSE issued

Ready(w) == pc[w] \in {"idle", "done"} /\ served < MaxRequests

\* ----------------------------------------------------------------- actions
\* POST /shorten up to ensure_db's test of _db_initialized
Shorten(w, raw) ==
  LET url == strip(raw) IN
  /\ Ready(w)
  /\ served' = served + 1
  /\ req' = [req EXCEPT ![w] = [kind |-> "shorten", arg |-> url]]
  /\ attempts' = [attempts EXCEPT ![w] = 0]
  /\ hits' = [hits EXCEPT ![w] = 0]
  /\ code' = [code EXCEPT ![w] = NoCode]
  /\ firstCode' = [firstCode EXCEPT ![w] = NoCode]
  /\ exc' = [exc EXCEPT ![w] = ""]
  /\ usedStore' = [usedStore EXCEPT ![w] = FALSE]
  /\ IF ~is_valid_url(url)
     THEN /\ resp' = [resp EXCEPT ![w] = InvalidInput]
          /\ pc' = [pc EXCEPT ![w] = "done"]
     ELSE /\ resp' = [resp EXCEPT ![w] = NoResp]
          /\ pc' = [pc EXCEPT ![w] = AfterEnsure(InstOf(w))]
  /\ UNCHANGED <<links, tableExists, _db_initialized, issued, stalled>>

\* GET /<code> up to ensure_db's test of _db_initialized
Go(w, c) ==
  /\ Ready(w)
  /\ served' = served + 1
  /\ req' = [req EXCEPT ![w] = [kind |-> "go", arg |-> c]]
  /\ attempts' = [attempts EXCEPT ![w] = 0]
  /\ hits' = [hits EXCEPT ![w] = 0]
  /\ code' = [code EXCEPT ![w] = NoCode]
  /\ firstCode' = [firstCode EXCEPT ![w] = NoCode]
  /\ exc' = [exc EXCEPT ![w] = ""]
  /\ usedStore' = [usedStore EXCEPT ![w] = FALSE]
  /\ resp' = [resp EXCEPT ![w] = NoResp]
  /\ pc' = [pc EXCEPT ![w] = AfterEnsure(InstOf(w))]
  /\ UNCHANGED <<links, tableExists, _db_initialized, issued, stalled>>

\* init_db: connect, CREATE TABLE IF NOT EXISTS, commit
InitDb(w) ==
  /\ pc[w] = "init"
  /\ stalled[w] = ""
  /\ LET r == CreateTableIfNotExists(tableExists, links)
     IN /\ tableExists' = r.exists
        /\ links' = r.rows
  /\ usedStore' = [usedStore EXCEPT ![w] = TRUE]
  /\ pc' = [pc EXCEPT ![w] = "setflag"]
  /\ UNCHANGED <<_db_initialized, req, attempts, hits, code, firstCode, exc, resp,
                 issued, stalled, served>>

\* ensure_db: _db_initialized = True
SetInitialized(w) ==
  /\ pc[w] = "setflag"
  /\ _db_initialized' = [_db_initialized EXCEPT ![InstOf(w)] = TRUE]
  /\ pc' = [pc EXCEPT ![w] = "connect"]
  /\ UNCHANGED <<links, tableExists, req, attempts, hits, code, firstCode, exc, resp,
                 usedStore, issued, stalled, served>>

\* with get_conn() as conn, conn.cursor() as cur
Connect(w) ==
  /\ pc[w] = "connect"
  /\ stalled[w] = ""
  /\ usedStore' = [usedStore EXCEPT ![w] = TRUE]
  /\ pc' = [pc EXCEPT ![w] = IF req[w].kind = "shorten" THEN "select" ELSE "lookup"]
  /\ UNCHANGED <<links, tableExists, _db_initialized, req, attempts, hits, code,
                 firstCode, exc, resp, issued, stalled, served>>

\* one iteration of the loop up to the test of fetchone()
SelectCode(w, c) ==
  /\ pc[w] = "select"
  /\ stalled[w] = ""
  /\ attempts[w] < MaxAttempts
  /\ attempts' = [attempts EXCEPT ![w] = attempts[w] + 1]
  /\ code' = [code EXCEPT ![w] = c]
  /\ firstCode' = [firstCode EXCEPT ![w] = IF attempts[w] = 0 THEN c ELSE firstCode[w]]
  /\ hits' = [hits EXCEPT ![w] = IF SelectExists(links, c) THEN hits[w] + 1 ELSE hits[w]]
  /\ pc' = [pc EXCEPT ![w] = IF SelectExists(links, c) THEN "select" ELSE "insert"]
  /\ UNCHANGED <<links, tableExists, _db_initialized, req, exc, resp, usedStore,
                 issued, stalled, served>>

\* the loop ran out: the with block exits and the handler returns 500
LoopExhausted(w) ==
  /\ pc[w] = "select"
  /\ stalled[w] = ""
  /\ attempts[w] = MaxAttempts
  /\ Respond(w, CodeSpaceExhausted)
  /\ UNCHANGED <<links, tableExists, _db_initialized, req, attempts, hits, code,
                 firstCode, exc, usedStore, stalled, served>>

\* INSERT of a key nobody holds: it waits while another transaction holds an
\* uncommitted insert of the same key
Insert(w) ==
  /\ pc[w] = "insert"
  /\ stalled[w] = ""
  /\ ~PrimaryKeyViolation(links, code[w])
  /\ \A v \in Workers \ {w} : ~Pending(v, code[w])
  /\ pc' = [pc EXCEPT ![w] = "commit"]
  /\ UNCHANGED <<links, tableExists, _db_initialized, req, attempts, hits, code,
                 firstCode, exc, resp, usedStore, issued, stalled, served>>

\* INSERT of a committed key: psycopg raises UniqueViolation
InsertConflict(w) ==
  /\ pc[w] = "insert"
  /\ stalled[w] = ""
  /\ PrimaryKeyViolation(links, code[w])
  /\ exc' = [exc EXCEPT ![w] = "UniqueViolation"]
  /\ pc' = [pc EXCEPT ![w] = "except"]
  /\ UNCHANGED <<links, tableExists, _db_initialized, req, attempts, hits, code,
                 firstCode, resp, usedStore, issued, stalled, served>>

\* conn.commit() and the 201 response built from the request
Commit(w) ==
  /\ pc[w] = "commit"
  /\ stalled[w] = ""
  /\ links' = InsertRow(links, code[w], req[w].arg)
  /\ Respond(w, Created(code[w], req[w].arg))
  /\ UNCHANGED <<tableExists, _db_initialized, req, attempts, hits, code, firstCode,
                 exc, usedStore, stalled, served>>

\* a lookup that deletes the row it served
Lookup_Consume(w) ==
  /\ pc[w] = "lookup"
  /\ stalled[w] = ""
  /\ LET row == SelectUrl(links, req[w].arg)
     IN Respond(w, IF row = {} THEN NotFound ELSE Redirect(CHOOSE u \in row : TRUE))
  /\ links' = SelectSeq(links, LAMBDA r : r.code # req[w].arg)
  /\ UNCHANGED <<tableExists, _db_initialized, req, attempts, hits, code,
                 firstCode, exc, usedStore, stalled, served>>

\* go: the SELECT, the exit of the with block and the response
Lookup(w) ==
  /\ pc[w] = "lookup"
  /\ stalled[w] = ""
  /\ LET row == SelectUrl(links, req[w].arg)
     IN Respond(w, IF row = {} THEN NotFound ELSE Redirect(CHOOSE u \in row : TRUE))
  /\ UNCHANGED <<links, tableExists, _db_initialized, req, attempts, hits, code,
                 firstCode, exc, usedStore, stalled, served>>

StoreSteps == {"init", "connect", "select", "insert", "commit", "lookup"}

\* a failure that leaves the uncommitted insert in the table
StoreFail_NoRollback(w) ==
  /\ pc[w] \in StoreSteps
  /\ stalled[w] = ""
  /\ exc' = [exc EXCEPT ![w] = "OperationalError"]
  /\ usedStore' = [usedStore EXCEPT ![w] = TRUE]
  /\ pc' = [pc EXCEPT ![w] = "except"]
  /\ links' = IF pc[w] = "commit" THEN InsertRow(links, code[w], req[w].arg) ELSE links
  /\ UNCHANGED <<tableExists, _db_initialized, req, attempts, hits, code,
                 firstCode, resp, issued, stalled, served>>

\* a failure of init_db after which ensure_db still sets the flag
StoreFail_SetsFlag(w) ==
  /\ pc[w] \in StoreSteps
  /\ stalled[w] = ""
  /\ exc' = [exc EXCEPT ![w] = "OperationalError"]
  /\ usedStore' = [usedStore EXCEPT ![w] = TRUE]
  /\ pc' = [pc EXCEPT ![w] = "except"]
  /\ _db_initialized' = IF pc[w] = "init"
                        THEN [_db_initialized EXCEPT ![InstOf(w)] = TRUE]
                        ELSE _db_initialized
  /\ UNCHANGED <<links, tableExists, req, attempts, hits, code,
                 firstCode, resp, issued, stalled, served>>

\* a store call fails (connect, DDL, select, insert, commit or the commit on
\* leaving the with block): psycopg raises, an open transaction is rolled back
StoreFail(w) ==
  /\ pc[w] \in StoreSteps
  /\ stalled[w] = ""
  /\ exc' = [exc EXCEPT ![w] = "OperationalError"]
  /\ usedStore' = [usedStore EXCEPT ![w] = TRUE]
  /\ pc' = [pc EXCEPT ![w] = "except"]
  /\ UNCHANGED <<links, tableExists, _db_initialized, req, attempts, hits, code,
                 firstCode, resp, issued, stalled, served>>

\* a handler that reconnects and tries again
HandleException_Retry(w) ==
  /\ pc[w] = "except"
  /\ pc' = [pc EXCEPT ![w] = "connect"]
  /\ UNCHANGED <<links, tableExists, _db_initialized, req, attempts, hits, code,
                 firstCode, exc, resp, usedStore, issued, stalled, served>>

\* except Exception as e: return ..., 503
HandleException(w) ==
  /\ pc[w] = "except"
  /\ Respond(w, StoreUnavailable(exc[w]))
  /\ UNCHANGED <<links, tableExists, _db_initialized, req, attempts, hits, code,
                 firstCode, exc, usedStore, stalled, served>>

\* the calls a worker at this point is inside: get_conn, or a statement or
\* commit on an open connection (init_db makes both)
StallPhases(w) ==
  IF pc[w] = "connect" THEN {"connect"}
  ELSE IF pc[w] = "init" THEN {"connect", "query"}
  ELSE {"query"}

\* the store stops answering the call a worker is in
Stall(w, phase) ==
  /\ pc[w] \in StoreSteps
  /\ stalled[w] = ""
  /\ phase \in StallPhases(w)
  /\ stalled' = [stalled EXCEPT ![w] = phase]
  /\ usedStore' = [usedStore EXCEPT ![w] = TRUE]
  /\ UNCHANGED <<links, tableExists, _db_initialized, pc, req, attempts, hits, code,
                 firstCode, exc, resp, issued, served>>

\* psycopg.connect(..., connect_timeout=5): a connection attempt that gets no
\* answer raises
ConnectTimeout(w) ==
  /\ stalled[w] = "connect"
  /\ stalled' = [stalled EXCEPT ![w] = ""]
  /\ exc' = [exc EXCEPT ![w] = "OperationalError"]
  /\ pc' = [pc EXCEPT ![w] = "except"]
  /\ UNCHANGED <<links, tableExists, _db_initialized, req, attempts, hits, code,
                 firstCode, resp, usedStore, issued, served>>

Next ==
  \E w \in Workers :
    \/ \E raw \in RawUrls : Shorten(w, raw)
    \/ \E c \in PathCodes : Go(w, c)
    \/ InitDb(w)
    \/ SetInitialized(w)
    \/ Connect(w)
    \/ \E c \in gen_code(CodeLen) : SelectCode(w, c)
    \/ LoopExhausted(w)
    \/ Insert(w)
    \/ InsertConflict(w)
    \/ Commit(w)
    \/ Lookup(w)
    \/ StoreFail(w)
    \/ \E phase \in {"connect", "query"} : Stall(w, phase)
    \/ ConnectTimeout(w)
    \/ HandleException(w)

Spec == Init /\ [][Next]_vars

\* the steps a handler takes by itself once the store has answered its call
HandlerStep(w) ==
  \/ InitDb(w)
  \/ SetInitialized(w)
  \/ Connect(w)
  \/ \E c \in gen_code(CodeLen) : SelectCode(w, c)
  \/ LoopExhausted(w)
  \/ Insert(w)
  \/ InsertConflict(w)
  \/ Commit(w)
  \/ Lookup(w)
  \/ ConnectTimeout(w)
  \/ HandleException(w)

\* a handler that can take a step takes one: its thread keeps running and a
\* store that has not stalled answers; failures and stalls are not forced
LiveSpec == Spec /\ \A w \in Workers : WF_vars(HandlerStep(w))

\* ------------------------------------------------------------ properties
Done(w) == pc[w] = "done"
Creating(w) == req[w].kind = "shorten"
Resolving(w) == req[w].kind = "go"
HasRow(table, c) == \E k \in 1..Len(table) : table[k].code = c
Url_B == <<"H", "T", "T", "P", "S", ":", "/", "/", "b">>
Url_port == <<"h", "t", "t", "p", ":", "/", "/", ":", "8">>
Code_a == <<"a", "a", "a", "a", "a", "a", "a">>
Code_A == <<"A", "a", "a", "a", "a", "a", "a">>

\* C1: no two rows of links have the same code, in every reachable state.
C1_UniqueCodes ==
  \A j, k \in 1..Len(links) : j # k => links[j].code # links[k].code

\* two rows are in the table and an insert of a taken key was rejected
C1_Witness ==
  /\ Len(links) = 2
  /\ \E w \in Workers : Done(w) /\ exc[w] = "UniqueViolation"

\* C2: when all concurrent create requests draw the same first candidate and
\* distinct candidates afterwards, and the store is available, one succeeds
\* with the shared candidate, the others succeed with other codes, and every
\* returned code is a row of its own.
C2_SharedCandidateAllSucceed ==
  (/\ \A w \in Workers :
        /\ Creating(w) /\ Done(w) /\ resp[w].status # 400
        /\ exc[w] # "OperationalError"
        /\ attempts[w] <= 2
        /\ firstCode[w] = firstCode[1]
        /\ attempts[w] = 2 => code[w] # firstCode[w]
   /\ \A v, w \in Workers :
        (v # w /\ attempts[v] = 2 /\ attempts[w] = 2) => code[v] # code[w])
  => /\ \A w \in Workers : resp[w].status = 201 /\ HasRow(links, resp[w].code)
     /\ Cardinality({w \in Workers : resp[w].code = firstCode[1]}) = 1
     /\ \A v, w \in Workers : v # w => resp[v].code # resp[w].code
     /\ Len(links) >= NumWorkers

\* C3: once a create returned 201 with code c for url u, a resolve of c that
\* completes its read redirects to exactly u.
C3_ResolveReturnsCreatedUrl ==
  [][\A w \in Workers :
       (pc[w] = "lookup" /\ pc'[w] = "done") =>
         \A k \in 1..Len(issued) :
           issued[k].code = req[w].arg => resp'[w] = Redirect(issued[k].url)]_vars

\* two links were created and a resolve redirected to the url returned by the
\* create of its code
C3_Witness ==
  /\ Len(issued) = 2
  /\ \E w \in Workers :
       /\ Resolving(w) /\ Done(w) /\ resp[w].status = 302
       /\ resp[w].url = Url_B
       /\ \E k \in 1..Len(issued) : issued[k] = [code |-> req[w].arg, url |-> Url_B]

\* C4: a create request ends in an error caused by a collision only after
\* all 10 attempts were used; before that it retries.
C4_CollisionRetriedBeforeBound ==
  \A w \in Workers :
    (/\ Creating(w)
     /\ pc[w] \in {"except", "done"}
     /\ (exc[w] = "UniqueViolation" \/ resp[w].status = 500))
    => attempts[w] = MaxAttempts

\* C5: at most 10 attempts; with the store available the request returns 500
\* exactly when all 10 candidates collided, and returns 201 with the k-th
\* candidate when the k-th existence check finds the code free.
C5_AttemptsAndOutcome ==
  \A w \in Workers :
    /\ attempts[w] <= MaxAttempts
    /\ (Creating(w) /\ Done(w) /\ resp[w].status # 400 /\ exc[w] # "OperationalError")
       => /\ resp[w].status = 500 <=> hits[w] = MaxAttempts
          /\ hits[w] < attempts[w] => resp[w] = Created(code[w], req[w].arg)

\* C6: a request in which a store call failed returns 503, create and
\* resolve alike.
C6_StoreFailureIs503 ==
  \A w \in Workers :
    /\ (Done(w) /\ exc[w] = "OperationalError") => resp[w].status = 503
    /\ pc[w] = "except" => resp[w].status = 0

\* a create and a resolve both ran into a store failure and returned 503
C6_Witness ==
  \E v, w \in Workers :
    /\ Creating(v) /\ Done(v) /\ exc[v] = "OperationalError" /\ resp[v].status = 503
    /\ Resolving(w) /\ Done(w) /\ exc[w] = "OperationalError" /\ resp[w].status = 503

\* C7: the number of rows equals the number of 201 responses, and the rows
\* are those the 201 responses name.
C7_RowsEqualSuccesses ==
  /\ Len(links) = Len(issued)
  /\ \A k \in 1..Len(issued) : \E j \in 1..Len(links) : links[j].code = issued[k].code

\* one create succeeded and another failed after its existence check found
\* the candidate free
C7_Witness ==
  /\ Len(links) = 1
  /\ \E v, w \in Workers :
       /\ Creating(v) /\ Done(v) /\ resp[v].status = 201
       /\ Creating(w) /\ Done(w) /\ resp[w].status = 503
       /\ exc[w] = "OperationalError" /\ hits[w] < attempts[w]

\* str.rfind over a set of characters, 1-based, 0 when absent
rfind(s, chars) ==
  IF \E i \in 1..Len(s) : s[i] \in chars
  THEN CHOOSE i \in 1..Len(s) :
         s[i] \in chars /\ \A j \in (i + 1)..Len(s) : s[j] \notin chars
  ELSE 0

\* the host of a netloc, as ParseResult.hostname computes it: without userinfo
\* and port, <<>> for None
hostname(netloc) ==
  LET at == rfind(netloc, {"@"})
      hostinfo == SubSeq(netloc, at + 1, Len(netloc))
      open == find(hostinfo, {"["})
      bracketed == SubSeq(hostinfo, open + 1, Len(hostinfo))
      close == find(bracketed, {"]"})
      colon == find(hostinfo, {":"})
  IN IF open > 0
     THEN lower(IF close = 0 THEN bracketed ELSE SubSeq(bracketed, 1, close - 1))
     ELSE lower(IF colon = 0 THEN hostinfo ELSE SubSeq(hostinfo, 1, colon - 1))

\* the claim's test of a url: empty, a scheme other than http and https, or
\* an empty host
FailsValidation(u) ==
  \/ u = <<>>
  \/ urlparse(u).scheme \notin {S_http, S_https}
  \/ hostname(urlparse(u).netloc) = <<>>

\* C8: a create whose url fails validation returns 400 without having called
\* the store, and no row carries such a url.
C8_InvalidRejectedBeforeStore ==
  /\ \A w \in Workers :
       (Creating(w) /\ FailsValidation(req[w].arg))
       => Done(w) /\ resp[w] = InvalidInput /\ ~usedStore[w]
  /\ \A k \in 1..Len(links) : ~FailsValidation(links[k].url)

\* C9: every row of links is still there, with the same url, after any step.
C9_AppendOnly ==
  [][\A k \in 1..Len(links) : \E j \in 1..Len(links') : links'[j] = links[k]]_vars

\* two rows exist and a resolve of the first row's code redirected to its url
C9_Witness ==
  /\ Len(links) = 2
  /\ \E w \in Workers :
       /\ Resolving(w) /\ Done(w)
       /\ resp[w] = Redirect(links[1].url) /\ req[w].arg = links[1].code

\* C10: a resolve whose read completes returns 404 exactly when no row has
\* that exact key, and a 404 comes from nowhere else.
C10_AbsentIsNotFound ==
  [][\A w \in Workers :
       /\ (pc[w] = "lookup" /\ pc'[w] = "done")
          => (resp'[w] = NotFound <=> ~HasRow(links, req[w].arg))
       /\ (pc[w] # "done" /\ resp'[w].status = 404) => pc[w] = "lookup"]_vars

\* a resolve of a key that differs only in case from a stored one returned 404
C10_Witness ==
  \E w \in Workers :
    /\ Resolving(w) /\ Done(w) /\ resp[w] = NotFound
    /\ req[w].arg = Code_A
    /\ HasRow(links, Code_a) /\ ~HasRow(links, Code_A)

\* C11: no step of a resolve request changes the rows of links, whether the
\* request hits, misses or fails.
C11_ResolveLeavesRows ==
  [][\A w \in Workers :
       (req'[w].kind = "go" /\ <<pc[w], stalled[w], exc[w]>> # <<pc'[w], stalled'[w], exc'[w]>>)
       => links' = links]_vars

\* with a row in the table, one resolve hit it and another resolve missed or
\* failed
C11_Witness ==
  /\ Len(links) = 1
  /\ \E v, w \in Workers :
       /\ Resolving(v) /\ Done(v) /\ resp[v].status = 302
       /\ Resolving(w) /\ Done(w) /\ resp[w].status \in {404, 503}

\* what the connect timeout lets a stalled request do
TimedOut(w) == ConnectTimeout(w)

\* C12: a request whose store call stalls never waits forever: whatever call
\* it stalls in, a timeout ends the call and the request goes on to its 503.
C12_StalledCallTimesOut ==
  \A w \in Workers : stalled[w] # "" => ENABLED TimedOut(w)

\* C13: after a store failure the request makes no further store call and no
\* further attempt; its next step returns 503 with the diagnostic.
C13_NoRetryAfterFailure ==
  [][\A w \in Workers :
       (exc[w] = "OperationalError" /\ pc[w] # "done")
       => /\ pc[w] = "except"
          /\ attempts'[w] = attempts[w]
          /\ stalled'[w] = ""
          /\ pc'[w] \in {"except", "done"}
          /\ pc'[w] = "done" =>
               /\ resp'[w].status = 503
               /\ resp'[w].details = "OperationalError"
               /\ UNCHANGED <<links, tableExists, _db_initialized>>]_vars

\* a create failed in the middle of its candidate loop and returned 503
\* without another attempt
C13_Witness ==
  \E w \in Workers :
    /\ Creating(w) /\ Done(w) /\ exc[w] = "OperationalError"
    /\ resp[w] = StoreUnavailable("OperationalError")
    /\ attempts[w] = 2 /\ hits[w] = 1

\* C14: a bootstrap leaves the table existing and the rows as they were, also
\* when another bootstrap ran meanwhile; once the table exists it changes
\* nothing in the store.
C14_BootstrapIdempotent ==
  [][\A w \in Workers :
       (pc[w] = "init" /\ pc'[w] = "setflag")
       => /\ tableExists'
          /\ links' = links
          /\ tableExists => UNCHANGED <<tableExists, links>>]_vars

\* a request that saw the flag unset ran the bootstrap over a table in which
\* another request had already committed a row
C14_Witness ==
  /\ Len(links) >= 1
  /\ \E v, w \in Workers :
       /\ v # w
       /\ pc[w] = "setflag"
       /\ Creating(v) /\ Done(v) /\ resp[v].status = 201

\* C15: every stored url has scheme http or https and a non-empty host, and
\* is the url of the 201 response that created its row.
C15_StoredUrlsValidVerbatim ==
  \A k \in 1..Len(links) :
    /\ urlparse(links[k].url).scheme \in {S_http, S_https}
    /\ hostname(urlparse(links[k].url).netloc) # <<>>
    /\ k <= Len(issued) /\ issued[k].url = links[k].url

IsCode(c) ==
  /\ Len(c) = 7
  /\ \A j \in 1..Len(c) :
       c[j] \in Range(ascii_uppercase) \cup Range(ascii_lowercase) \cup Range(digits)

\* C16: every candidate, every code of a 201 response and every key of links
\* has 7 characters, all of them among the 62 of A-Z, a-z, 0-9.
C16_CodeFormat ==
  /\ Cardinality(Range(alphabet)) = 62
  /\ \A w \in Workers : code[w] # NoCode => IsCode(code[w])
  /\ \A w \in Workers : resp[w].status = 201 => IsCode(resp[w].code)
  /\ \A k \in 1..Len(links) : IsCode(links[k].code)

\* a create returned a code that starts with an upper-case letter and the
\* table holds it
C16_Witness ==
  \E w \in Workers :
    /\ Creating(w) /\ Done(w) /\ resp[w].status = 201
    /\ resp[w].code = Code_A /\ HasRow(links, Code_A)

\* C17: a request is past ensure_db only when the table exists, and a process
\* whose flag is set has the table.
C17_TableBeforeUse ==
  /\ \A w \in Workers :
       pc[w] \in {"setflag", "connect", "select", "insert", "commit", "lookup"}
       => tableExists
  /\ \A i \in Instances : _db_initialized[i] => tableExists
  /\ ~tableExists => links = <<>>

\* a create and a resolve are about to read a table that exists and holds a
\* row, in a process whose flag is set
C17_Witness ==
  /\ Len(links) >= 1
  /\ \E v, w \in Workers :
       /\ pc[v] = "select" /\ pc[w] = "lookup"
       /\ _db_initialized[InstOf(v)] /\ _db_initialized[InstOf(w)] /\ tableExists

\* only the flag write of ensure_db changes the flag
FlagStep(w) ==
  /\ pc[w] = "setflag"
  /\ pc'[w] = "connect"
  /\ _db_initialized' = [_db_initialized EXCEPT ![InstOf(w)] = TRUE]

\* C18: a failed bootstrap leaves the flag unset and ends in 503; a request
\* that finds the flag unset runs the bootstrap; a flag that is set stays set;
\* and a bootstrap that is running leads to the flag being set unless the
\* store fails or stalls under it.
C18_FlagFollowsBootstrap ==
  /\ \A w \in Workers :
       (pc[w] = "init") ~>
         (_db_initialized[InstOf(w)] \/ exc[w] = "OperationalError" \/ stalled[w] # "")
  /\ [][/\ \A i \in Instances : _db_initialized[i] => _db_initialized'[i]
        /\ _db_initialized' # _db_initialized => \E w \in Workers : FlagStep(w)
        /\ \A w \in Workers :
             /\ (pc[w] = "init" /\ pc'[w] = "except")
                => /\ UNCHANGED <<_db_initialized, tableExists>>
                   /\ exc'[w] = "OperationalError"
             /\ (pc[w] = "except" /\ pc'[w] = "done") => resp'[w].status = 503
             /\ (pc[w] \in {"idle", "done"} /\ pc'[w] \notin {"idle", "done"})
                => (pc'[w] = "init" <=> ~_db_initialized[InstOf(w)])
             /\ (pc[w] = "setflag" /\ pc'[w] # "setflag") => _db_initialized'[InstOf(w)]]_vars

\* a request whose bootstrap failed returned 503 with the flag still unset,
\* and another request of the same process has run the bootstrap and is about
\* to set the flag
C18_Witness ==
  \E v, w \in Workers :
    /\ v # w /\ InstOf(v) = InstOf(w)
    /\ Done(w) /\ resp[w] = StoreUnavailable("OperationalError") /\ usedStore[w]
    /\ ~_db_initialized[InstOf(w)]
    /\ pc[v] = "setflag" /\ tableExists

\* C19: an insert is issued only right after an existence check of the same
\* candidate found no row; a candidate found present leads to the next
\* attempt, not to an insert; after an insert the request only commits or
\* fails, and the row committed is the candidate checked.
C19_InsertOnlyAfterFreeCheck ==
  [][\A w \in Workers :
       /\ (pc[w] # "insert" /\ pc'[w] = "insert")
          => /\ pc[w] = "select"
             /\ attempts'[w] = attempts[w] + 1
             /\ ~HasRow(links, code'[w])
       /\ (pc[w] = "select" /\ attempts'[w] = attempts[w] + 1 /\ HasRow(links, code'[w]))
          => pc'[w] = "select"
       /\ (pc[w] \in {"insert", "commit"} /\ pc'[w] # pc[w])
          => /\ pc'[w] \in {"commit", "except", "done"}
             /\ attempts'[w] = attempts[w]
             /\ code'[w] = code[w]
       /\ (pc[w] = "commit" /\ pc'[w] = "done")
          => links' = Append(links, [code |-> code[w], url |-> req[w].arg])
       /\ Len(links') > Len(links)
          => \E v \in Workers : pc[v] = "commit" /\ pc'[v] = "done"]_vars

\* a create skipped a candidate it found present and inserted the next one
C19_Witness ==
  \E w \in Workers :
    /\ pc[w] = "commit" /\ attempts[w] = 2 /\ hits[w] = 1
    /\ HasRow(links, firstCode[w]) /\ ~HasRow(links, code[w])

====
